---------------------------- MODULE Spec2Model ----------------------------
(***************************************************************************)
(* A model of the query pipeline of src/socrates_main.py: the Search       *)
(* Client's result, the Relevance Scorer, the Result Selector, the Content *)
(* Fetcher, the Session Cache (RECENT_PAPERS), the download operation and  *)
(* the two command parsers.                                                *)
(*                                                                         *)
(* Conventions.                                                            *)
(*  - An optional value (Python None or a value) is a sequence: << >> for  *)
(*    None, << v >> for v.  A paper's id is the sequence of the path       *)
(*    segments of its URI (the result of id.split('/')), << >> for None.   *)
(*  - A text (title, summary, query) is the sequence of its words.  A      *)
(*    query term holds no white space, so "term in title" is: the term is  *)
(*    a substring of some word of the title.  Lower and Inside give        *)
(*    str.lower and the substring relation on the words of the model.      *)
(*  - A relevance score is an integer in units of 1/(10*D), where          *)
(*    D = current_year - 2010 + 1, so that every score the code can        *)
(*    compute (a sum of 3.0, 1.0, 0.5 and the clamped recency ratio) is    *)
(*    exact: 1.0 is 10*D, 0.1 is D.                                        *)
(***************************************************************************)
EXTENDS Integers, Sequences, FiniteSets, TLC

VARIABLES
    RECENT_PAPERS,  \* the Session Cache: a sequence of paper records
    pdf_cache,      \* PDF_CACHE_DIR: short id -> "absent" | "pdf" | "broken"
    last,           \* the last call: operation, arguments, return, effects
    now_year,       \* datetime.now().year
    sel_papers,     \* evaluate_papers: the input list
    sel_query,      \* evaluate_papers: the query
    sel_out,        \* evaluate_papers: the returned list
    sel_pc,         \* evaluate_papers: "ready" | "done" | "off"
    fetch,          \* read_paper and the download loop on their own
    feed,           \* search_arxiv on its own: the response and the result
    sc,             \* calculate_relevance_score on its own
    conc            \* concurrent invocations: the tasks of the event loop

vars == <<RECENT_PAPERS, pdf_cache, last, now_year,
          sel_papers, sel_query, sel_out, sel_pc, fetch, feed, sc, conc>>

(***************************************************************************)
(* Bounds of the model.                                                    *)
(***************************************************************************)
MaxSelLen == 7      \* longest input list given to evaluate_papers alone
MaxResults == 2     \* longest response of the search provider in a session
MaxIndex == 3       \* largest paper number written in a command
MaxReads == 3       \* calls of read_paper on one paper
MaxEntries == 2     \* entries of one response given to search_arxiv alone
MaxTasks == 2       \* invocations in progress at the same time
MaxCalls == 3       \* invocations made in a concurrent session

NowYears == {2025, 2026}
SessionYears == {2026}

(***************************************************************************)
(* Generic helpers.                                                        *)
(***************************************************************************)
Min(a, b) == IF a <= b THEN a ELSE b
Max(a, b) == IF a >= b THEN a ELSE b
Range(s) == {s[i] : i \in DOMAIN s}
SeqsUpTo(S, n) == UNION {[1..k -> S] : k \in 0..n}
Prefix(s, n) == SubSeq(s, 1, Min(n, Len(s)))      \* s[:n]

RECURSIVE Filter(_, _)
Filter(s, T) ==
    IF s = <<>> THEN <<>>
    ELSE (IF Head(s) \in T THEN <<Head(s)>> ELSE <<>>) \o Filter(Tail(s), T)

(***************************************************************************)
(* Paper records (src/socrates_main.py:95-121).                            *)
(***************************************************************************)
NoDate == [present |-> FALSE, year_ok |-> FALSE, year |-> 0]
Garbled == [present |-> TRUE, year_ok |-> FALSE, year |-> 0]
Dated(y) == [present |-> TRUE, year_ok |-> TRUE, year |-> y]

Paper(id, title, summary, authors, published, pdf_url) ==
    [id |-> id, title |-> title, summary |-> summary, authors |-> authors,
     published |-> published, pdf_url |-> pdf_url,
     relevance_score |-> <<>>, content |-> <<>>]

\* paper['id'].split('/')[-1]; raises AttributeError when id is None, so it
\* is only applied where HasId holds.
HasId(p) == p.id # <<>>
ShortId(p) == p.id[Len(p.id)]
\* paper['id'].split('/')[-1] if paper['id'] else "unknown"
ShortIdOrUnknown(p) == IF HasId(p) THEN ShortId(p) ELSE "unknown"
HasPdf(p) == p.pdf_url # <<>>

(***************************************************************************)
(* Relevance Scorer (calculate_relevance_score).                           *)
(***************************************************************************)
BaseYear == 2010
TitleWeight == 3
SummaryWeight == 1
Den(cy) == cy - BaseYear + 1
One(cy) == 10 * Den(cy)             \* the score 1.0

stop_words == {"and", "the", "in", "of", "a", "to", "for", "is", "on", "by"}

\* str.lower() on the words of the model: the others are in lower case.
Lower(w) ==
    CASE w = "Graph" -> "graph"
      [] w = "The" -> "the"
      [] w = "No" -> "no"
      [] OTHER -> w

\* The pairs <<t, w>> of lower-case words of the model with t a proper
\* substring of w.
Inside ==
    { <<"graph", "graphs">>, <<"string", "strings">>, <<"the", "theory">>,
      <<"in", "string">>, <<"in", "strings">> }

\* term.lower() in text.lower()
Occurs(term, text) ==
    \E i \in DOMAIN text :
        \/ Lower(term) = Lower(text[i])
        \/ <<Lower(term), Lower(text[i])>> \in Inside

\* [term for term in query.split() if term.lower() not in stop_words]
QueryTerms(query) ==
    Filter(query, {t \in Range(query) : Lower(t) \notin stop_words})

RECURSIVE TermScore(_, _, _)
TermScore(p, terms, cy) ==
    IF terms = <<>> THEN 0
    ELSE (IF Occurs(Head(terms), p.title) THEN TitleWeight * One(cy) ELSE 0)
       + (IF Occurs(Head(terms), p.summary) THEN SummaryWeight * One(cy) ELSE 0)
       + TermScore(p, Tail(terms), cy)

\* A recency bonus without the floor of 0.1.
RecencyBonusNoFloor(p, cy) ==
    IF p.published.present /\ p.published.year_ok
    THEN Min(One(cy), 10 * (p.published.year - BaseYear))
    ELSE 5 * Den(cy)
\* min(1.0, max(0.1, (year - 2010) / (current_year - 2010 + 1))), or 0.5
RecencyBonus(p, cy) ==
    IF p.published.present /\ p.published.year_ok
    THEN Min(One(cy), Max(Den(cy), 10 * (p.published.year - BaseYear)))
    ELSE 5 * Den(cy)

calculate_relevance_score(p, terms, cy) ==
    TermScore(p, terms, cy) + RecencyBonus(p, cy)

(***************************************************************************)
(* Result Selector (evaluate_papers).                                      *)
(***************************************************************************)
MinPapers == 3
MaxPapers == 6

Score(p) == p.relevance_score[1]

\* for paper in papers: paper['relevance_score'] = ...
ScoreAll(papers, terms, cy) ==
    [i \in DOMAIN papers |->
        [papers[i] EXCEPT
            !.relevance_score = <<calculate_relevance_score(papers[i], terms, cy)>>]]

\* The place of p in a list sorted by descending score: after every element
\* whose score is at least p's (p came later in the input).
RECURSIVE InsertDesc(_, _)
InsertDesc(p, s) ==
    IF s = <<>> THEN <<p>>
    ELSE IF Score(Head(s)) >= Score(p) THEN <<Head(s)>> \o InsertDesc(p, Tail(s))
    ELSE <<p>> \o s

\* The same, but before the elements of equal score: ties come out reversed.
RECURSIVE InsertDescUnstable(_, _)
InsertDescUnstable(p, s) ==
    IF s = <<>> THEN <<p>>
    ELSE IF Score(Head(s)) > Score(p)
         THEN <<Head(s)>> \o InsertDescUnstable(p, Tail(s))
    ELSE <<p>> \o s

RECURSIVE SortedUnstable(_)
SortedUnstable(papers) ==
    IF papers = <<>> THEN <<>>
    ELSE InsertDescUnstable(papers[Len(papers)],
                            SortedUnstable(SubSeq(papers, 1, Len(papers) - 1)))

\* sorted(papers, key=lambda p: p['relevance_score'], reverse=True): a stable
\* sort, which reverse=True leaves stable.
RECURSIVE Sorted(_)
Sorted(papers) ==
    IF papers = <<>> THEN <<>>
    ELSE InsertDesc(papers[Len(papers)],
                    Sorted(SubSeq(papers, 1, Len(papers) - 1)))

RelevantLoose(sorted_papers, cy) ==
    LET AtLeast(p) == Score(p) >= One(cy) IN SelectSeq(sorted_papers, AtLeast)
\* [p for p in sorted_papers if p['relevance_score'] > 1.0]
Relevant(sorted_papers, cy) ==
    LET Above(p) == Score(p) > One(cy) IN SelectSeq(sorted_papers, Above)

\* The banding without its "at least 3" branch.
BandNoFloor(sorted_papers, relevant_papers) ==
    IF Len(relevant_papers) > MaxPapers THEN Prefix(relevant_papers, MaxPapers)
    ELSE relevant_papers
\* the three branches of lines 186-191
Band(sorted_papers, relevant_papers) ==
    IF Len(relevant_papers) < MinPapers
    THEN Prefix(sorted_papers, Min(MinPapers, Len(sorted_papers)))
    ELSE IF Len(relevant_papers) > MaxPapers
    THEN Prefix(relevant_papers, MaxPapers)
    ELSE relevant_papers

evaluate_papers(papers, query, cy) ==
    LET sorted_papers == Sorted(ScoreAll(papers, QueryTerms(query), cy))
    IN Band(sorted_papers, Relevant(sorted_papers, cy))


(***************************************************************************)
(* The state after the module is loaded (lines 41-49): no paper cached, no *)
(* file in PDF_CACHE_DIR, no call made.                                    *)
(***************************************************************************)
CacheKeys == {"9901001v1", "2202.00002v2", "unknown"}

NoCall ==
    [op |-> "none", query |-> <<>>, text |-> <<>>, ids |-> {}, all |-> FALSE,
     ret |-> "none", out |-> <<>>, events |-> <<>>, targets |-> <<>>,
     attempts |-> <<>>, success_count |-> 0, failed_count |-> 0]

SessionStart ==
    /\ RECENT_PAPERS = <<>>
    /\ pdf_cache = [k \in CacheKeys |-> "absent"]
    /\ last = NoCall

\* The parts of the program that are exercised on their own are not running.
FetchOff ==
    [pc |-> "off", paper |-> <<>>, calls |-> <<>>, targets |-> <<>>,
     batch |-> <<>>]
FeedOff == [pc |-> "off", response |-> <<>>, result |-> <<>>]
ScoreOff == [pc |-> "off", paper |-> <<>>, query |-> <<>>, score |-> <<>>]
ConcOff ==
    [on |-> FALSE, tasks |-> <<>>, running |-> 0, calls |-> 0, lists |-> <<>>,
     order |-> <<>>]
UnitsOff ==
    fetch = FetchOff /\ feed = FeedOff /\ sc = ScoreOff /\ conc = ConcOff

(***************************************************************************)
(* The Result Selector on its own: evaluate_papers applied to every input  *)
(* list of up to MaxSelLen papers built from four kinds of record, whose   *)
(* scores for the query "graph" are 4.5, 2.0, exactly 1.0 and (about) 0.5. *)
(* The search provider gives each record of one response its own id.       *)
(***************************************************************************)
SelKinds ==
    { Paper(<<>>, <<"graph", "networks">>, <<"graph">>, <<>>, NoDate, <<>>),
      Paper(<<>>, <<"strings">>, <<"graph">>, <<>>, Dated(2030), <<>>),
      Paper(<<>>, <<"strings">>, <<"theory">>, <<>>, Dated(2030), <<>>),
      Paper(<<>>, <<"strings">>, <<>>, <<>>, Dated(2018), <<>>) }

SelQueries == { <<"graph">>, <<"the", "theory", "of", "strings">> }

WithIds(kinds) == [i \in DOMAIN kinds |-> [kinds[i] EXCEPT !.id = <<"abs", i>>]]

SelInputs == {WithIds(k) : k \in SeqsUpTo(SelKinds, MaxSelLen)}

SelIdle ==
    /\ sel_papers = <<>>
    /\ sel_query = <<>>
    /\ sel_out = <<>>
    /\ sel_pc = "off"

SelInit ==
    /\ SessionStart
    /\ UnitsOff
    /\ now_year \in NowYears
    /\ sel_papers \in SelInputs
    /\ sel_query \in SelQueries
    /\ sel_out = <<>>
    /\ sel_pc = "ready"

Evaluate ==
    /\ sel_pc = "ready"
    /\ sel_out' = evaluate_papers(sel_papers, sel_query, now_year)
    /\ sel_pc' = "done"
    /\ UNCHANGED <<RECENT_PAPERS, pdf_cache, last, now_year, sel_papers,
                   sel_query, fetch, feed, sc, conc>>

SelNext == Evaluate

SpecSel == SelInit /\ [][SelNext]_vars

\* What the claims about the selector speak of, read off the input list.
SelScoreOf(i) ==
    calculate_relevance_score(sel_papers[i], QueryTerms(sel_query), now_year)
SelAbove == {i \in DOMAIN sel_papers : SelScoreOf(i) > One(now_year)}
SelPos(p) == CHOOSE i \in DOMAIN sel_papers : sel_papers[i].id = p.id
SelOutIdx == {SelPos(sel_out[k]) : k \in DOMAIN sel_out}
SelOutIsInput ==
    /\ \A k \in DOMAIN sel_out : \E i \in DOMAIN sel_papers :
          sel_papers[i].id = sel_out[k].id
    /\ \A k, l \in DOMAIN sel_out : k # l => sel_out[k].id # sel_out[l].id

\* C3: for every input list of N papers and every query, evaluate_papers
\* returns at least min(3, N) and at most 6 papers.
C3_SelectorSize ==
    sel_pc = "done" =>
        /\ Len(sel_out) >= Min(3, Len(sel_papers))
        /\ Len(sel_out) <= 6

C3_Witness ==
    /\ sel_pc = "done"
    /\ Len(sel_papers) = MaxSelLen
    /\ Cardinality(SelAbove) < 3
    /\ Len(sel_out) = 3

\* C4: the returned list is in non-increasing score order, and two returned
\* papers of equal score keep the relative order they had in the input, in
\* each of the three branches (they differ only in which papers are kept).
C4_SelectorOrder ==
    sel_pc = "done" =>
        /\ SelOutIsInput
        /\ \A k, l \in DOMAIN sel_out : k < l =>
              /\ Score(sel_out[k]) >= Score(sel_out[l])
              /\ Score(sel_out[k]) = Score(sel_out[l])
                    => SelPos(sel_out[k]) < SelPos(sel_out[l])

C4_Witness ==
    /\ sel_pc = "done"
    /\ Cardinality(SelAbove) > 6
    /\ \E k, l \in DOMAIN sel_out :
          /\ k < l
          /\ Score(sel_out[k]) = Score(sel_out[l])
    /\ \E k, l \in DOMAIN sel_out : Score(sel_out[k]) > Score(sel_out[l])

\* C5: with R the papers scoring strictly above 1.0: fewer than 3 in R gives
\* the 3 best of the whole input (all of it when shorter), more than 6 gives
\* the 6 best of R, otherwise exactly R; a paper scoring 1.0 or less is
\* returned only in the first case.
C5_SelectorPolicy ==
    sel_pc = "done" =>
        /\ SelOutIsInput
        /\ Cardinality(SelAbove) < 3 =>
              /\ Len(sel_out) = Min(3, Len(sel_papers))
              /\ \A i \in SelOutIdx : \A j \in DOMAIN sel_papers \ SelOutIdx :
                    SelScoreOf(i) >= SelScoreOf(j)
        /\ Cardinality(SelAbove) > 6 =>
              /\ Len(sel_out) = 6
              /\ SelOutIdx \subseteq SelAbove
              /\ \A i \in SelOutIdx : \A j \in SelAbove \ SelOutIdx :
                    SelScoreOf(i) >= SelScoreOf(j)
        /\ Cardinality(SelAbove) \in 3..6 => SelOutIdx = SelAbove
        /\ \A i \in SelOutIdx :
              SelScoreOf(i) <= One(now_year) => Cardinality(SelAbove) < 3

C5_Witness ==
    /\ sel_pc = "done"
    /\ Cardinality(SelAbove) = 3
    /\ \E i \in DOMAIN sel_papers : SelScoreOf(i) = One(now_year)
    /\ Len(sel_out) = 3


(***************************************************************************)
(* The Relevance Scorer on its own: the terms of a query, as                *)
(* evaluate_papers takes them from it, and calculate_relevance_score on    *)
(* one paper.                                                              *)
(***************************************************************************)
ScoreTitles ==
    { <<>>, <<"Graph", "networks">>, <<"graphs">>, <<"strings", "theory">>,
      <<"No", "title">> }
ScoreSummaries == { <<>>, <<"graph", "theory">>, <<"The", "strings">> }
ScoreDates ==
    { NoDate, Garbled, Dated(2005), Dated(2011), Dated(2021), Dated(2030) }
ScoreQueries ==
    { <<"graph">>, <<"Graph", "graph">>, <<"The", "theory", "of", "strings">>,
      <<"string", "in", "the">>, <<"title">> }

ScoreInit ==
    /\ SessionStart
    /\ now_year \in NowYears
    /\ SelIdle
    /\ fetch = FetchOff
    /\ feed = FeedOff
    /\ conc = ConcOff
    /\ \E title \in ScoreTitles, summary \in ScoreSummaries,
          published \in ScoreDates, query \in ScoreQueries :
          sc = [ScoreOff EXCEPT
                  !.pc = "ready",
                  !.paper = <<Paper(<<>>, title, summary, <<>>, published, <<>>)>>,
                  !.query = query]

ScorePaper ==
    /\ sc.pc = "ready"
    /\ sc' = [sc EXCEPT
                !.pc = "done",
                !.score = <<calculate_relevance_score(
                                sc.paper[1], QueryTerms(sc.query), now_year)>>]
    /\ UNCHANGED <<RECENT_PAPERS, pdf_cache, last, now_year,
                   sel_papers, sel_query, sel_out, sel_pc, fetch, feed, conc>>

ScoreNext == ScorePaper

SpecScore == ScoreInit /\ [][ScoreNext]_vars

\* C17: the relevance score is 3 for each query term that is not a stop
\* word and occurs (whatever the case, as a substring) in the title, plus 1
\* for each such term that occurs in the summary, plus a recency bonus:
\* exactly 0.5 when published is absent or its year cannot be parsed, and
\* (year - 2010) / (currentYear - 2010 + 1) clamped to [0.1, 1.0] otherwise.
\* Stop words add nothing.  Scores are in units of 1/(10 * D), with
\* D = currentYear - 2010 + 1.
C17_Score ==
    sc.pc = "done" =>
        LET p == sc.paper[1]
            D == now_year - 2010 + 1
            terms == {i \in DOMAIN sc.query :
                        Lower(sc.query[i]) \notin
                            {"and", "the", "in", "of", "a", "to", "for", "is",
                             "on", "by"}}
            in_title == {i \in terms : Occurs(sc.query[i], p.title)}
            in_summary == {i \in terms : Occurs(sc.query[i], p.summary)}
            ratio == 10 * (p.published.year - 2010)     \* in units of 1/(10*D)
            bonus == IF ~p.published.present \/ ~p.published.year_ok
                     THEN 5 * D
                     ELSE IF ratio < D THEN D
                     ELSE IF ratio > 10 * D THEN 10 * D
                     ELSE ratio
        IN sc.score[1] = 30 * D * Cardinality(in_title)
                            + 10 * D * Cardinality(in_summary) + bonus

C17_Witness ==
    /\ sc.pc = "done"
    /\ sc.query = <<"Graph", "graph">>
    /\ sc.paper[1].title = <<"graphs">>
    /\ sc.paper[1].summary = <<"graph", "theory">>
    /\ sc.paper[1].published = Dated(2005)
    /\ sc.score[1] = 80 * (now_year - 2010 + 1) + (now_year - 2010 + 1)


(***************************************************************************)
(* Search Client (search_arxiv) on its own.  An element of an entry of the *)
(* Atom feed is absent, present without text (<title/>: its .text is None) *)
(* or present with text.  A response is a failure (an HTTP error, a body   *)
(* that is not XML) or a feed of up to MaxEntries entries; each entry      *)
(* lacks at most one thing.                                                *)
(***************************************************************************)
Absent == [elem |-> FALSE, text |-> <<>>]
Empty == [elem |-> TRUE, text |-> <<>>]
Text(t) == [elem |-> TRUE, text |-> <<t>>]

Entry(id, title, summary, published, pdf_link, names) ==
    [id |-> id, title |-> title, summary |-> summary, published |-> published,
     pdf_link |-> pdf_link, names |-> names]

FullEntry ==
    Entry(Text(<<"abs", "2202.00002v2">>), Text(<<"graph", "networks">>),
          Text(<<"graph", "theory">>), Text(Dated(2021)),
          <<"pdf/2202.00002v2">>, <<Text("Ada"), Text("Cy")>>)

EntryKinds ==
    { FullEntry,
      [FullEntry EXCEPT !.id = Absent],
      [FullEntry EXCEPT !.title = Absent],
      [FullEntry EXCEPT !.title = Empty],
      [FullEntry EXCEPT !.summary = Absent],
      [FullEntry EXCEPT !.summary = Empty],
      [FullEntry EXCEPT !.published = Absent],
      [FullEntry EXCEPT !.pdf_link = <<>>],
      [FullEntry EXCEPT !.names = <<>>],
      [FullEntry EXCEPT !.names = <<Text("Ada"), Empty>>] }

Failure == [ok |-> FALSE, entries |-> <<>>]
Feed(entries) == [ok |-> TRUE, entries |-> entries]
SearchResponses ==
    {Failure} \cup {Feed(es) : es \in SeqsUpTo(EntryKinds, MaxEntries)}

\* elem.text.strip() of lines 97-98 raises AttributeError on a None text.
StripRaises(e) == e.elem /\ e.text = <<>>
EntryRaises(e) == StripRaises(e.title) \/ StripRaises(e.summary)

\* X.text.strip().replace('\n', ' ') if X is not None else default
TextOr(e, default) == IF e.elem THEN e.text[1] ELSE default
\* X.text if X is not None else None
TextOrNone(e) == IF e.elem THEN e.text ELSE <<>>

\* Lines 95-121: the paper dict of one entry.
ParseEntry(e) ==
    Paper(IF TextOrNone(e.id) = <<>> THEN <<>> ELSE e.id.text[1],
          TextOr(e.title, <<"No", "title">>),
          TextOr(e.summary, <<"No", "summary">>),
          [i \in DOMAIN e.names |-> e.names[i].text],
          IF TextOrNone(e.published) = <<>> THEN NoDate ELSE e.published.text[1],
          e.pdf_link)

Found(raised, papers) == [raised |-> raised, papers |-> papers]

\* Anything raised inside the try is raised again at lines 125-130.
search_arxiv(response) ==
    IF ~response.ok THEN Found(TRUE, <<>>)
    ELSE IF \E i \in DOMAIN response.entries : EntryRaises(response.entries[i])
    THEN Found(TRUE, <<>>)
    ELSE Found(FALSE, [i \in DOMAIN response.entries |->
                          ParseEntry(response.entries[i])])

SearchInit ==
    /\ SessionStart
    /\ now_year \in SessionYears
    /\ SelIdle
    /\ fetch = FetchOff
    /\ sc = ScoreOff
    /\ conc = ConcOff
    /\ \E response \in SearchResponses :
          feed = [FeedOff EXCEPT !.pc = "ready", !.response = response]

SearchArxiv ==
    /\ feed.pc = "ready"
    /\ feed' = [feed EXCEPT !.pc = "done",
                            !.result = <<search_arxiv(feed.response)>>]
    /\ UNCHANGED <<RECENT_PAPERS, pdf_cache, last, now_year,
                   sel_papers, sel_query, sel_out, sel_pc, fetch, sc, conc>>

SearchNext == SearchArxiv

SpecSearch == SearchInit /\ [][SearchNext]_vars

\* C16: the Search Client keeps every record of the response whatever the
\* record lacks: a record with a missing or empty title, summary, author
\* name or pdf link comes back with neutral defaults (the empty string for
\* title and summary, the empty sequence for authors, an undefined pdf_url);
\* it is not discarded and the search does not fail.
Lacks(e) == ~e.elem \/ e.text = <<>>
C16_KeepsEveryRecord ==
    (feed.pc = "done" /\ feed.response.ok) =>
        LET es == feed.response.entries
            r == feed.result[1]
        IN /\ ~r.raised
           /\ Len(r.papers) = Len(es)
           /\ \A i \in DOMAIN es :
                 /\ Lacks(es[i].title) => r.papers[i].title = <<>>
                 /\ Lacks(es[i].summary) => r.papers[i].summary = <<>>
                 /\ es[i].names = <<>> => r.papers[i].authors = <<>>
                 /\ \A k \in DOMAIN r.papers[i].authors :
                       r.papers[i].authors[k] # <<>>
                 /\ es[i].pdf_link = <<>> => r.papers[i].pdf_url = <<>>


(***************************************************************************)
(* The session: the records the search provider can return.  An author is  *)
(* an optional name (author.text is None for an empty <name/> element).    *)
(*   P1  an ordinary record with an old-style id, hep-th/9901001v1         *)
(*   P2  another archive's 9901001v1 (same trailing segment as P1), with   *)
(*       no pdf link, no authors and no published date                     *)
(*   P3  no <id> element, an unparseable date                              *)
(*   P4  an author whose name element is empty                             *)
(***************************************************************************)
P1 == Paper(<<"abs", "hep-th", "9901001v1">>, <<"graph", "networks">>,
            <<"graph", "theory">>, << <<"Ada">> >>, Dated(2021),
            <<"pdf/hep-th/9901001v1">>)
P2 == Paper(<<"abs", "math", "9901001v1">>, <<"graph">>, <<"theory">>,
            <<>>, NoDate, <<>>)
P3 == Paper(<<>>, <<"graph", "theory">>, <<"strings">>, << <<"Cy">> >>,
            Garbled, <<"pdf/anonymous">>)
P4 == Paper(<<"abs", "2202.00002v2">>, <<"strings">>, <<"graph">>,
            << <<>> >>, Dated(2030), <<"pdf/2202.00002v2">>)

UniverseSeq == <<P1, P2, P3, P4>>
Universe == Range(UniverseSeq)

\* The responses of the search provider: up to MaxResults distinct records.
Responses ==
    {r \in SeqsUpTo(Universe, MaxResults) :
        \A i, j \in DOMAIN r : i # j => r[i] # r[j]}

\* search_arxiv either raises (lines 125-130) or returns the parsed list.
SearchOutcomes ==
    {[raised |-> TRUE, papers |-> <<>>]}
        \cup {[raised |-> FALSE, papers |-> r] : r \in Responses}

Queries == { <<"graph">>, <<"theory", "of", "strings">> }
Questions == { <<"graph?">>, <<"strings!">> }

\* question.replace("?", "").replace("!", ""), word by word
StripWord(w) ==
    CASE w = "graph?" -> "graph"
      [] w = "strings!" -> "strings"
      [] OTHER -> w
StripMarks(question) == [i \in DOMAIN question |-> StripWord(question[i])]

\* ", ".join(paper['authors'][:3]) raises TypeError on a None name
JoinRaises(authors) ==
    \E i \in 1..Min(3, Len(authors)) : authors[i] = <<>>
FormatRaises(papers) == \E i \in DOMAIN papers : JoinRaises(papers[i].authors)

(***************************************************************************)
(* download_papers_to_user.                                                *)
(***************************************************************************)
\* What a caller may pass as specific_ids: short ids, one of them of no record.
IdPool == {ShortId(p) : p \in {q \in Universe : HasId(q)}} \cup {"9999.99999v9"}
IdLists == {s \in SUBSET IdPool : Cardinality(s) <= 2}

NetOutcomes == {"saved", "failed"}

RECURSIVE SelectFrom(_, _)
SelectFrom(s, ids) ==
    IF s = <<>> THEN <<>>
    ELSE (IF HasId(Head(s)) /\ ShortId(Head(s)) \in ids THEN <<Head(s)>> ELSE <<>>)
            \o SelectFrom(Tail(s), ids)

\* A lookup of the ids among every record the provider holds.
SelectFromIndex(cache, ids) == SelectFrom(UniverseSeq, ids)
\* [p for p in RECENT_PAPERS if p['id'].split('/')[-1] in specific_ids]
SelectById(cache, ids) == SelectFrom(cache, ids)

\* Lines 623-628: the papers to download, or the AttributeError of line 628
\* on a cached record whose id is None.
Resolve(cache, ids, all) ==
    IF all /\ cache # <<>> THEN [raised |-> FALSE, targets |-> cache]
    ELSE IF ids # {}
    THEN IF \E i \in DOMAIN cache : ~HasId(cache[i])
         THEN [raised |-> TRUE, targets |-> <<>>]
         ELSE [raised |-> FALSE, targets |-> SelectById(cache, ids)]
    ELSE [raised |-> FALSE, targets |-> <<>>]

NoBatch == [attempts |-> <<>>, success_count |-> 0, failed_count |-> 0]

\* Lines 639-659: one pass of the loop, for paper p, whose request (if one
\* is made) ends as outcome says.  attempts records each pass: the paper and
\* what happened ("no_url": no request was made).
Pass(acc, p, outcome) ==
    IF ~HasPdf(p)
    THEN [acc EXCEPT !.failed_count = @ + 1,
                     !.attempts = Append(@, [paper |-> p, result |-> "no_url",
                                             file |-> <<>>])]
    ELSE IF outcome = "saved"
    THEN [acc EXCEPT !.success_count = @ + 1,
                     !.attempts = Append(@, [paper |-> p, result |-> "saved",
                                    file |-> <<ShortIdOrUnknown(p), p.title>>])]
    ELSE [acc EXCEPT !.failed_count = @ + 1,
                     !.attempts = Append(@, [paper |-> p, result |-> "failed",
                                             file |-> <<>>])]

\* A loop that gives up at the first request that fails.
RECURSIVE LoopAbortFrom(_, _, _, _)
LoopAbortFrom(targets, net, i, acc) ==
    IF i > Len(targets) THEN acc
    ELSE LET next == Pass(acc, targets[i], net[i])
         IN IF next.attempts[i].result = "failed" THEN next
            ELSE LoopAbortFrom(targets, net, i + 1, next)

\* for paper in papers_to_download: ...
RECURSIVE LoopFrom(_, _, _, _)
LoopFrom(targets, net, i, acc) ==
    IF i > Len(targets) THEN acc
    ELSE LoopFrom(targets, net, i + 1, Pass(acc, targets[i], net[i]))

DownloadLoopAbort(targets, net) == LoopAbortFrom(targets, net, 1, NoBatch)
DownloadLoop(targets, net) == LoopFrom(targets, net, 1, NoBatch)

Refused(ret) == [ret |-> ret, targets |-> <<>>] @@ NoBatch

\* The whole operation; net[i] is the outcome of the request for target i.
download_papers_to_user(cache, ids, all, net) ==
    IF cache = <<>> /\ ids = {} THEN Refused("none_searched")
    ELSE LET r == Resolve(cache, ids, all)
         IN IF r.raised THEN Refused("error")
            ELSE IF r.targets = <<>> THEN Refused("no_valid")
            ELSE [ret |-> "report", targets |-> r.targets]
                    @@ DownloadLoop(r.targets, net)

\* The requests a call can issue: one outcome per target that has a pdf_url.
NetFor(cache, ids, all) ==
    LET targets == Resolve(cache, ids, all).targets
    IN {net \in [DOMAIN targets -> NetOutcomes] :
            \A i \in DOMAIN targets : ~HasPdf(targets[i]) => net[i] = "failed"}


(***************************************************************************)
(* Commands.  A command is a sequence of tokens: lower-cased words, runs   *)
(* of digits (with their value) and the hyphen.  Consecutive tokens are    *)
(* separated by one space, except around a hyphen, which is written        *)
(* without spaces ("papers 2-4").  The regular expressions of the parsers  *)
(* are matched on the tokens.                                              *)
(***************************************************************************)
W(s) == [k |-> "w", w |-> s, n |-> 0]
N(i) == [k |-> "n", w |-> "", n |-> i]
Dash == [k |-> "-", w |-> "-", n |-> 0]
IsW(text, i, s) == i \in DOMAIN text /\ text[i].k = "w" /\ text[i].w = s
IsN(text, i) == i \in DOMAIN text /\ text[i].k = "n"
IsDash(text, i) == i \in DOMAIN text /\ text[i].k = "-"

Nums == 1..MaxIndex

Commands ==
    { <<W("download"), W("these"), W("papers")>>,
      <<W("get"), W("those"), W("papers")>>,
      <<W("what"), W("is"), W("entanglement")>> }
    \cup { <<W("download"), W("paper"), N(a)>> : a \in Nums }
    \cup { <<W("download"), W("papers"), N(a), Dash, N(b)>> : a, b \in Nums }
    \cup { <<W("download"), W("papers"), N(a), W("to"), N(b)>> : a, b \in Nums }
    \cup { <<W("download"), W("paper"), N(a), W("and"), W("paper"), N(b)>> :
              a, b \in Nums }

\* detect_download_intent: the patterns of lines 326-337 and the keywords of
\* line 345 (every pattern that holds "download" is covered by the keyword).
detect_download_intent(text) ==
    \/ \E i \in DOMAIN text : IsW(text, i, "download")
    \/ \E i \in DOMAIN text :
          /\ IsW(text, i, "save") \/ IsW(text, i, "get")
          /\ \/ IsW(text, i + 1, "papers")
             \/ /\ \E d \in {"the", "these", "those"} : IsW(text, i + 1, d)
                /\ IsW(text, i + 2, "paper") \/ IsW(text, i + 2, "papers")
    \/ \E i \in DOMAIN text :
          /\ IsW(text, i, "papers") /\ IsW(text, i + 1, "to")
          /\ IsW(text, i + 2, "my") /\ IsW(text, i + 3, "computer")

\* range(start, end + 1)
RangeSeq(a, b) == [i \in 1..(b - a + 1) |-> a + i - 1]

\* r"paper (\d+)": the places where it matches
PaperAt(text) == {i \in DOMAIN text : IsW(text, i, "paper") /\ IsN(text, i + 1)}
RECURSIVE NumbersAt(_, _, _)
NumbersAt(text, places, i) ==
    IF i > Len(text) THEN <<>>
    ELSE (IF i \in places THEN <<text[i + 1].n>> ELSE <<>>)
            \o NumbersAt(text, places, i + 1)
LeastOf(S) == CHOOSE i \in S : \A j \in S : i <= j

\* re.search(r"paper (\d+)", message): the first match only
FirstPaperNumber(text) ==
    IF PaperAt(text) = {} THEN <<>> ELSE <<text[LeastOf(PaperAt(text)) + 1].n>>
\* re.finditer(r"paper (\d+)", command_lower): every match
AllPaperNumbers(text) == NumbersAt(text, PaperAt(text), 1)

\* r"papers (\d+)(?:\s*-\s*|\s*to\s*)(\d+)"
RangeAtParse(text) ==
    {i \in DOMAIN text :
        /\ IsW(text, i, "papers") /\ IsN(text, i + 1)
        /\ IsDash(text, i + 2) \/ IsW(text, i + 2, "to")
        /\ IsN(text, i + 3)}
RangeParse(text) ==
    IF RangeAtParse(text) = {} THEN <<>>
    ELSE LET i == LeastOf(RangeAtParse(text))
         IN RangeSeq(text[i + 1].n, text[i + 3].n)

\* r"papers (\d+)[- ](\d+)": one hyphen or one space between the numbers
RangeAtHandle(text) ==
    {i \in DOMAIN text :
        /\ IsW(text, i, "papers") /\ IsN(text, i + 1)
        /\ \/ IsDash(text, i + 2) /\ IsN(text, i + 3)
           \/ IsN(text, i + 2)}
RangeHandle(text) ==
    IF RangeAtHandle(text) = {} THEN <<>>
    ELSE LET i == LeastOf(RangeAtHandle(text))
             j == IF IsDash(text, i + 2) THEN i + 3 ELSE i + 2
         IN RangeSeq(text[i + 1].n, text[j].n)

\* paper_numbers of parse_download_request (lines 702-713)
NumbersParse(text) == FirstPaperNumber(text) \o RangeParse(text)
\* paper_numbers of handle_paper_command (lines 751-761)
NumbersHandle(text) == AllPaperNumbers(text) \o RangeHandle(text)

\* Lines 721-725 and 766-770: the in-range numbers; the id of a record
\* without one raises AttributeError.
InRange(cache, numbers) ==
    {numbers[i] : i \in DOMAIN numbers} \cap (1..Len(cache))
IdsRaise(cache, numbers) == \E n \in InRange(cache, numbers) : ~HasId(cache[n])
IdsOf(cache, numbers) == {ShortId(cache[n]) : n \in InRange(cache, numbers)}

\* What a parser does before it calls download_papers_to_user: a return of
\* its own, or the arguments of that call.
Plan(ret, ids, all) == [ret |-> ret, ids |-> ids, all |-> all]

ParsePlan(cache, message) ==
    IF ~detect_download_intent(message) THEN Plan("no_intent", {}, FALSE)
    ELSE LET paper_numbers == NumbersParse(message)
         IN IF paper_numbers # <<>>
            THEN IF cache = <<>> THEN Plan("not_searched_yet", {}, FALSE)
                 ELSE IF IdsRaise(cache, paper_numbers) THEN Plan("error", {}, FALSE)
                 ELSE Plan("call", IdsOf(cache, paper_numbers), FALSE)
            ELSE Plan("call", {}, TRUE)

HandlePlan(cache, command) ==
    IF ~detect_download_intent(command) THEN Plan("unknown_command", {}, FALSE)
    ELSE LET paper_numbers == NumbersHandle(command)
         IN IF paper_numbers # <<>>
            THEN IF IdsRaise(cache, paper_numbers) THEN Plan("raised", {}, FALSE)
                 ELSE Plan("call", IdsOf(cache, paper_numbers), FALSE)
            ELSE Plan("call", {}, TRUE)

Delegate(cache, plan, net) ==
    IF plan.ret = "call"
    THEN download_papers_to_user(cache, plan.ids, plan.all, net)
    ELSE Refused(plan.ret)

parse_download_request(cache, message, net) ==
    Delegate(cache, ParsePlan(cache, message), net)

handle_paper_command(cache, command, net) ==
    Delegate(cache, HandlePlan(cache, command), net)


(***************************************************************************)
(* Content Fetcher (download_pdf, extract_text_from_pdf, read_paper).      *)
(* A file of PDF_CACHE_DIR is "absent", "readable" (text can be extracted) *)
(* or "unreadable" (a truncated or non-PDF file).  A request ends          *)
(*   "refused"  before the file is opened (connection or HTTP error),      *)
(*   "cut"      while the body is streamed into the opened file,           *)
(*   "pdf"      complete, a PDF,                                           *)
(*   "garbage"  complete, not a PDF.                                       *)
(***************************************************************************)
FetchOutcomes == {"refused", "cut", "pdf", "garbage"}

ErrDownload == "Error downloading PDF"
ErrExtract == "Error extracting text from PDF"
Unavailable == "PDF URL not available"
StartsWithError(c) == c \in {ErrDownload, ErrExtract}

\* requested: requests.get was called (line 270).
Fetched(error, files, requested) ==
    [error |-> error, files |-> files, requested |-> requested]

download_pdf(files, key, o) ==
    IF files[key] # "absent" THEN Fetched(FALSE, files, FALSE)
    ELSE CASE o = "refused" -> Fetched(TRUE, files, TRUE)
           [] o = "cut" ->
                Fetched(TRUE, [files EXCEPT ![key] = "unreadable"], TRUE)
           [] o = "pdf" ->
                Fetched(FALSE, [files EXCEPT ![key] = "readable"], TRUE)
           [] o = "garbage" ->
                Fetched(FALSE, [files EXCEPT ![key] = "unreadable"], TRUE)

extract_text_from_pdf(files, key) ==
    IF files[key] = "readable" THEN "text" ELSE ErrExtract

Read(p, content, files, requested) ==
    [paper |-> [p EXCEPT !.content = <<content>>], files |-> files,
     requested |-> requested]

\* Lines 300-314: what read_paper does for a paper with a pdf_url.
ReadPdf(p, files, o) ==
    LET key == ShortIdOrUnknown(p)
        d == download_pdf(files, key, o)
    IN IF d.error THEN Read(p, ErrDownload, d.files, d.requested)
       ELSE Read(p, extract_text_from_pdf(d.files, key), d.files, d.requested)

\* A read_paper without the test of lines 296-298.
read_paper_unguarded(p, files, o) == ReadPdf(p, files, o)
read_paper(p, files, o) ==
    IF ~HasPdf(p) THEN Read(p, Unavailable, files, FALSE)
    ELSE ReadPdf(p, files, o)

\* The loops of lines 467-485 and 535-538: read_paper on each selected paper
\* that has a pdf_url, in order; the records are updated in place.  events
\* tells what happened to each paper: "skipped" (read_paper not called),
\* "cached" (called, the file was there) or how its request ended.
RECURSIVE HydrateFrom(_, _, _, _, _)
HydrateFrom(papers, files, net, i, events) ==
    IF i > Len(papers)
    THEN [papers |-> papers, files |-> files, events |-> events]
    ELSE IF HasPdf(papers[i])
    THEN LET r == read_paper(papers[i], files, net[i])
         IN HydrateFrom([papers EXCEPT ![i] = r.paper], r.files, net, i + 1,
                        Append(events, IF r.requested THEN net[i] ELSE "cached"))
    ELSE HydrateFrom(papers, files, net, i + 1, Append(events, "skipped"))

(***************************************************************************)
(* The Content Fetcher and the download loop on their own: read_paper      *)
(* called up to MaxReads times on one paper, each request ending as the    *)
(* network decides, and the loop of download_papers_to_user run once on a  *)
(* list of target papers.  fetch.calls records, for each call of           *)
(* read_paper, the content it left, whether it made a request, how that    *)
(* request ended ("none" without one) and whether PDF_CACHE_DIR changed.   *)
(***************************************************************************)
\* The outcomes a call can meet: none to choose when no request is made.
OutcomesFor(p, files) ==
    IF ~HasPdf(p) \/ files[ShortIdOrUnknown(p)] # "absent" THEN {"refused"}
    ELSE FetchOutcomes

NetsFor(targets) ==
    {net \in [DOMAIN targets -> NetOutcomes] :
        \A i \in DOMAIN targets : ~HasPdf(targets[i]) => net[i] = "failed"}

FetchInit ==
    /\ SessionStart
    /\ now_year \in SessionYears
    /\ SelIdle
    /\ feed = FeedOff
    /\ sc = ScoreOff
    /\ conc = ConcOff
    /\ \E p \in Universe, targets \in Responses \ {<<>>} :
          fetch = [FetchOff EXCEPT !.pc = "on", !.paper = <<p>>,
                                   !.targets = targets]

ReadPaper ==
    /\ fetch.pc = "on"
    /\ Len(fetch.calls) < MaxReads
    /\ \E o \in OutcomesFor(fetch.paper[1], pdf_cache) :
        \E r \in {read_paper(fetch.paper[1], pdf_cache, o)} :
           /\ pdf_cache' = r.files
           /\ fetch' = [fetch EXCEPT
                          !.paper = <<r.paper>>,
                          !.calls = Append(@, [content |-> r.paper.content,
                                               requested |-> r.requested,
                                               met |-> IF r.requested THEN o
                                                       ELSE "none",
                                               stored |-> r.files # pdf_cache])]
    /\ UNCHANGED <<RECENT_PAPERS, last, now_year,
                   sel_papers, sel_query, sel_out, sel_pc, feed, sc, conc>>

BatchDownload ==
    /\ fetch.pc = "on"
    /\ fetch.batch = <<>>
    /\ \E net \in NetsFor(fetch.targets) :
          fetch' = [fetch EXCEPT !.batch = <<DownloadLoop(fetch.targets, net)>>]
    /\ UNCHANGED <<RECENT_PAPERS, pdf_cache, last, now_year,
                   sel_papers, sel_query, sel_out, sel_pc, feed, sc, conc>>

FetchNext == ReadPaper \/ BatchDownload

SpecFetch == FetchInit /\ [][FetchNext]_vars

\* C11: no request is made for a paper without a pdf_url: read_paper leaves
\* the "unavailable" sentinel as its content, makes no request and leaves
\* the file cache as it was; the download loop counts such a paper as failed
\* and makes no request for it.
C11_NoUrlNoRequest ==
    fetch.pc = "on" =>
        /\ ~HasPdf(fetch.paper[1]) =>
              \A i \in DOMAIN fetch.calls :
                  /\ fetch.calls[i].content = <<"PDF URL not available">>
                  /\ ~fetch.calls[i].requested
                  /\ ~fetch.calls[i].stored
        /\ fetch.batch # <<>> =>
              LET b == fetch.batch[1]
                  without == {i \in DOMAIN fetch.targets :
                                 fetch.targets[i].pdf_url = <<>>}
              IN /\ \A i \in without :
                        /\ b.attempts[i].paper = fetch.targets[i]
                        /\ b.attempts[i].result \notin {"saved", "failed"}
                 /\ b.failed_count >= Cardinality(without)
                 /\ b.success_count <= Len(fetch.targets) - Cardinality(without)

C11_Witness ==
    /\ fetch.pc = "on"
    /\ fetch.paper[1].pdf_url = <<>>
    /\ Len(fetch.calls) >= 2
    /\ fetch.batch # <<>>
    /\ \E i, j \in DOMAIN fetch.targets :
          /\ fetch.targets[i].pdf_url = <<>>
          /\ fetch.batch[1].attempts[j].result = "saved"

\* C12: read_paper is idempotent per paper: whatever the first call met (a
\* complete download, a failure part-way through the stream, a file that
\* cannot be read), a second call on the same paper leaves the content the
\* first call left and makes no request.
C12_FetchIdempotent ==
    (/\ fetch.pc = "on"
     /\ Len(fetch.calls) >= 2
     /\ fetch.calls[1].met \in {"pdf", "cut", "garbage"})
    => /\ fetch.calls[2].content = fetch.calls[1].content
       /\ ~fetch.calls[2].requested

(***************************************************************************)
(* Pipeline Orchestrator: arxiv_search, analyze_papers, read_papers,       *)
(* research_question.  Each gives the cache and the files it leaves, what  *)
(* it returns ("report", "no_papers" or "error", the error-prefixed        *)
(* string of its except clause) and the paper set it put out.              *)
(***************************************************************************)
\* A write that keeps what the cache held.
StoreMerged(cache, papers) == cache \o papers
\* RECENT_PAPERS = papers: the name is bound to the new list.
Store(cache, papers) == papers

Outcome(cache, files, ret, out) ==
    [cache |-> cache, files |-> files, ret |-> ret, out |-> out,
     events |-> <<>>]
Hydrated(h, ret) ==
    [Outcome(h.papers, h.files, ret, h.papers) EXCEPT !.events = h.events]

arxiv_search(cache, files, found) ==
    IF found.raised THEN Outcome(cache, files, "error", <<>>)
    ELSE LET stored == Store(cache, found.papers)
         IN IF found.papers = <<>> THEN Outcome(stored, files, "no_papers", <<>>)
            ELSE IF FormatRaises(found.papers)
            THEN Outcome(stored, files, "error", found.papers)
            ELSE Outcome(stored, files, "report", found.papers)

analyze_papers(cache, files, found, query, cy) ==
    IF found.raised THEN Outcome(cache, files, "error", <<>>)
    ELSE IF found.papers = <<>> THEN Outcome(cache, files, "no_papers", <<>>)
    ELSE LET relevant_papers == evaluate_papers(found.papers, query, cy)
             stored == Store(cache, relevant_papers)
         IN IF FormatRaises(relevant_papers)
            THEN Outcome(stored, files, "error", relevant_papers)
            ELSE Outcome(stored, files, "report", relevant_papers)

read_papers(cache, files, found, query, cy, net) ==
    IF found.raised THEN Outcome(cache, files, "error", <<>>)
    ELSE IF found.papers = <<>> THEN Outcome(cache, files, "no_papers", <<>>)
    ELSE LET relevant_papers == evaluate_papers(found.papers, query, cy)
             h == HydrateFrom(relevant_papers, files, net, 1, <<>>)
             paper_contents ==
                {i \in DOMAIN h.papers :
                    /\ HasPdf(h.papers[i])
                    /\ ~StartsWithError(h.papers[i].content[1])}
         IN IF paper_contents # {} /\ FormatRaises(h.papers)
            THEN Hydrated(h, "error")
            ELSE Hydrated(h, "report")

research_question(cache, files, found, question, cy, net) ==
    IF found.raised THEN Outcome(cache, files, "error", <<>>)
    ELSE IF found.papers = <<>> THEN Outcome(cache, files, "no_papers", <<>>)
    ELSE LET query == StripMarks(question)
             relevant_papers == evaluate_papers(found.papers, query, cy)
             h == HydrateFrom(relevant_papers, files, net, 1, <<>>)
         IN IF FormatRaises(h.papers)
            THEN Hydrated(h, "error")
            ELSE Hydrated(h, "report")

\* academic_research: the question without its marks, followed by a range of
\* years when year_from is past the default, goes to research_question; the
\* string that comes back, whatever it is, is returned behind an introduction.
DefaultYearFrom == 2010
YearsFrom == {2010, 2020}
YearRange(year_from) ==
    IF year_from > DefaultYearFrom THEN <<"2020-2026">> ELSE <<>>
AcademicQuery(question, year_from) ==
    StripMarks(question) \o YearRange(year_from)

academic_research(cache, files, found, question, year_from, cy, net) ==
    LET r == research_question(cache, files, found,
                               AcademicQuery(question, year_from), cy, net)
    IN [r EXCEPT !.ret = CASE r.ret = "report" -> "report"
                           [] r.ret = "no_papers" -> "intro_no_papers"
                           [] r.ret = "error" -> "intro_error"]

\* One fetch outcome per selected paper for which a request is made.
FetchFor(files, found, query, cy) ==
    LET selected == evaluate_papers(found.papers, query, cy)
    IN {net \in [DOMAIN selected -> FetchOutcomes] :
            \A i \in DOMAIN selected :
                (~HasPdf(selected[i])
                    \/ files[ShortIdOrUnknown(selected[i])] # "absent")
                        => net[i] = "refused"}


(***************************************************************************)
(* The session: one action per tool call.  last describes the call made.   *)
(***************************************************************************)
PipelineCall(op, query, r) ==
    [NoCall EXCEPT !.op = op, !.query = query, !.ret = r.ret, !.out = r.out,
                   !.events = r.events]

DownloadCall(op, text, ids, all, d) ==
    [NoCall EXCEPT !.op = op, !.text = text, !.ids = ids, !.all = all,
                   !.ret = d.ret, !.targets = d.targets,
                   !.attempts = d.attempts,
                   !.success_count = d.success_count,
                   !.failed_count = d.failed_count]

Others ==
    <<now_year, sel_papers, sel_query, sel_out, sel_pc, fetch, feed, sc,
      conc>>

Idle == last = NoCall

ArxivSearch ==
    /\ Idle
    /\ \E found \in SearchOutcomes :
        \E r \in {arxiv_search(RECENT_PAPERS, pdf_cache, found)} :
           /\ RECENT_PAPERS' = r.cache
           /\ pdf_cache' = r.files
           /\ last' = PipelineCall("arxiv_search", <<>>, r)
           /\ UNCHANGED Others

AnalyzePapers ==
    /\ Idle
    /\ \E found \in SearchOutcomes, query \in Queries :
        \E r \in {analyze_papers(RECENT_PAPERS, pdf_cache, found, query,
                                 now_year)} :
           /\ RECENT_PAPERS' = r.cache
           /\ pdf_cache' = r.files
           /\ last' = PipelineCall("analyze_papers", query, r)
           /\ UNCHANGED Others

ReadPapers ==
    /\ Idle
    /\ \E found \in SearchOutcomes, query \in Queries :
        \E net \in FetchFor(pdf_cache, found, query, now_year) :
          \E r \in {read_papers(RECENT_PAPERS, pdf_cache, found, query,
                                now_year, net)} :
               /\ RECENT_PAPERS' = r.cache
               /\ pdf_cache' = r.files
               /\ last' = PipelineCall("read_papers", query, r)
               /\ UNCHANGED Others

ResearchQuestion ==
    /\ Idle
    /\ \E found \in SearchOutcomes, question \in Questions :
        \E net \in FetchFor(pdf_cache, found, StripMarks(question), now_year) :
          \E r \in {research_question(RECENT_PAPERS, pdf_cache, found,
                                      question, now_year, net)} :
               /\ RECENT_PAPERS' = r.cache
               /\ pdf_cache' = r.files
               /\ last' = PipelineCall("research_question", question, r)
               /\ UNCHANGED Others

AcademicResearch ==
    /\ Idle
    /\ \E found \in SearchOutcomes, question \in Questions,
          year_from \in YearsFrom :
        \E net \in FetchFor(pdf_cache, found,
                            AcademicQuery(question, year_from), now_year) :
          \E r \in {academic_research(RECENT_PAPERS, pdf_cache, found,
                                      question, year_from, now_year, net)} :
               /\ RECENT_PAPERS' = r.cache
               /\ pdf_cache' = r.files
               /\ last' = PipelineCall("academic_research", question, r)
               /\ UNCHANGED Others

DownloadPapersToUser ==
    /\ Idle
    /\ \E ids \in IdLists, all \in BOOLEAN :
        \E net \in NetFor(RECENT_PAPERS, ids, all) :
          \E d \in {download_papers_to_user(RECENT_PAPERS, ids, all, net)} :
            /\ last' = DownloadCall("download_papers_to_user", <<>>, ids, all, d)
            /\ UNCHANGED <<RECENT_PAPERS, pdf_cache, Others>>

ParseDownloadRequest ==
    /\ Idle
    /\ \E message \in Commands :
        \E plan \in {ParsePlan(RECENT_PAPERS, message)} :
          \E net \in NetFor(RECENT_PAPERS, plan.ids, plan.all) :
            \E d \in {Delegate(RECENT_PAPERS, plan, net)} :
              /\ last' = DownloadCall("parse_download_request", message,
                                      plan.ids, plan.all, d)
              /\ UNCHANGED <<RECENT_PAPERS, pdf_cache, Others>>

HandlePaperCommand ==
    /\ Idle
    /\ \E command \in Commands :
        \E plan \in {HandlePlan(RECENT_PAPERS, command)} :
          \E net \in NetFor(RECENT_PAPERS, plan.ids, plan.all) :
            \E d \in {Delegate(RECENT_PAPERS, plan, net)} :
              /\ last' = DownloadCall("handle_paper_command", command,
                                      plan.ids, plan.all, d)
              /\ UNCHANGED <<RECENT_PAPERS, pdf_cache, Others>>

\* The call returns to the transport layer, which may then make the next.
Return ==
    /\ ~Idle
    /\ last' = NoCall
    /\ UNCHANGED <<RECENT_PAPERS, pdf_cache, Others>>

Init ==
    /\ SessionStart
    /\ now_year \in SessionYears
    /\ SelIdle
    /\ UnitsOff

Next ==
    \/ ArxivSearch
    \/ AnalyzePapers
    \/ ReadPapers
    \/ ResearchQuestion
    \/ AcademicResearch
    \/ DownloadPapersToUser
    \/ ParseDownloadRequest
    \/ HandlePaperCommand
    \/ Return

Spec == Init /\ [][Next]_vars


(***************************************************************************)
(* Claims about the session.                                               *)
(***************************************************************************)
PipelineOps ==
    {"arxiv_search", "analyze_papers", "read_papers", "research_question"}
CommandOps == {"parse_download_request", "handle_paper_command"}
DownloadOps == CommandOps \cup {"download_papers_to_user"}
InfoRets == {"none_searched", "no_valid", "not_searched_yet"}

CachedSet == Range(RECENT_PAPERS)

\* C1: after a searchPapers, analyzePapers, readPapers or
\* answerResearchQuestion call that did not end in an error string, a call
\* whose search found nothing included, the Session Cache is exactly the
\* paper set that call put out; nothing of an earlier result remains.
C1_CacheIsOutput ==
    (last.op \in PipelineOps /\ last.ret # "error") => RECENT_PAPERS = last.out

\* C2: a searchPapers, analyzePapers, readPapers or answerResearchQuestion
\* call that returns an error-prefixed string leaves the Session Cache as it
\* was before the call.
C2_ErrorKeepsCache ==
    [][(last'.op \in PipelineOps /\ last'.ret = "error")
            => RECENT_PAPERS' = RECENT_PAPERS]_vars

\* The written range of a command "... papers N-M" or "... papers N to M".
IsRangeCommand(text, a, b) ==
    \/ text = <<W("download"), W("papers"), N(a), Dash, N(b)>>
    \/ text = <<W("download"), W("papers"), N(a), W("to"), N(b)>>

\* C6: for a download command with a range "papers N-M" or "papers N to M",
\* 1 <= N <= M <= len(cache), the papers acted on are exactly the cached
\* records at positions N..M, through parse_download_request and through
\* handle_paper_command alike.
C6_RangeTargets ==
    \A a, b \in Nums :
        (/\ last.op \in CommandOps
         /\ IsRangeCommand(last.text, a, b)
         /\ a <= b /\ b <= Len(RECENT_PAPERS))
        => /\ last.ret = "report"
           /\ Len(last.targets) = b - a + 1
           /\ Range(last.targets) = {RECENT_PAPERS[i] : i \in a..b}

\* The paper numbers a command names: every "paper N", and the numbers of a
\* range written "papers N-M" or "papers N to M".
NamedNumbers(text) ==
    {text[i + 1].n : i \in PaperAt(text)}
        \cup UNION {text[i + 1].n .. text[i + 3].n : i \in RangeAtParse(text)}
HasNumber(text) == \E i \in DOMAIN text : IsN(text, i)

\* C7: paper numbers outside 1..len(cache) in a download command are
\* dropped silently: the papers at the in-range numbers of the command are
\* still acted on, and when no number is in range (or the cache is empty)
\* the command makes no request and returns an informational string, not
\* an error string and not an exception.
C7_OutOfRangeDropped ==
    (/\ last.op \in CommandOps
     /\ detect_download_intent(last.text)
     /\ NamedNumbers(last.text) # {})
    => LET named == NamedNumbers(last.text) \cap (1..Len(RECENT_PAPERS))
       IN /\ \A n \in named : RECENT_PAPERS[n] \in Range(last.targets)
          /\ named = {} => /\ last.attempts = <<>>
                           /\ last.ret \in InfoRets

\* C8: a command with download intent and no number in it resolves to every
\* paper of the Session Cache, and only such a command does: one that holds
\* a paper number or a range never falls back to the whole cache.
C8_AllOnlyWithoutNumbers ==
    (last.op \in CommandOps /\ detect_download_intent(last.text))
    => /\ ~HasNumber(last.text) =>
            /\ last.all
            /\ RECENT_PAPERS # <<>> => last.targets = RECENT_PAPERS
       /\ HasNumber(last.text) => ~last.all

\* C9: every paper download_papers_to_user requests or reports as saved is
\* a record of the Session Cache as it stood when the call was made (the
\* call leaves the cache alone); an id of the allow-list that no cached
\* record carries causes no request and no reported success.
C9_DownloadsFromCache ==
    last.op \in DownloadOps =>
        /\ \A i \in DOMAIN last.targets : last.targets[i] \in CachedSet
        /\ \A i \in DOMAIN last.attempts : last.attempts[i].paper \in CachedSet
        /\ \A id \in last.ids :
              (~\E p \in CachedSet : HasId(p) /\ ShortId(p) = id)
                => ~\E i \in DOMAIN last.attempts :
                        /\ HasId(last.attempts[i].paper)
                        /\ ShortId(last.attempts[i].paper) = id

C9_Witness ==
    /\ last.op = "download_papers_to_user"
    /\ ~last.all
    /\ last.ret = "report"
    /\ \E id \in last.ids : \E p \in Universe \ CachedSet :
          HasId(p) /\ ShortId(p) = id
    /\ \E i \in DOMAIN last.attempts : last.attempts[i].result = "saved"

\* C10: a batch download makes one pass per target paper, in target order,
\* whatever happened to the papers before it: a failed download does not
\* stop the passes that follow, and on return the succeeded and the failed
\* counts add up to the number of targets.
C10_BatchCompletes ==
    (last.op \in DownloadOps /\ last.ret = "report") =>
        /\ Len(last.attempts) = Len(last.targets)
        /\ \A i \in DOMAIN last.attempts :
              last.attempts[i].paper = last.targets[i]
        /\ last.success_count + last.failed_count = Len(last.targets)
        /\ last.success_count =
              Cardinality({i \in DOMAIN last.attempts :
                              last.attempts[i].result = "saved"})

C10_Witness ==
    /\ last.op \in DownloadOps
    /\ last.ret = "report"
    /\ Len(last.targets) >= 2
    /\ last.attempts[1].result = "failed"
    /\ last.attempts[2].result = "saved"

\* C13: every operation a client can invoke returns a string, for every
\* input and every Session Cache the session can hold, a cache with a record
\* whose id is absent included; no failure leaves the operation as an
\* exception.
AllOps ==
    PipelineOps \cup DownloadOps \cup {"academic_research"}
C13_AlwaysReturnsString ==
    last.op \in AllOps => last.ret # "raised"


\* A failure while paper i of the selected set was hydrated: its request
\* failed, or the file that was or came to be in PDF_CACHE_DIR cannot be read.
HydrationFailed(i) ==
    \/ last.events[i] \in {"refused", "cut", "garbage"}
    \/ /\ last.events[i] = "cached"
       /\ pdf_cache[ShortIdOrUnknown(last.out[i])] = "unreadable"

\* C14: a network or extraction failure while one paper is hydrated is not
\* raised: that paper's content then starts with "Error", read_papers and
\* research_question go on to hydrate every later selected paper, and they
\* return their normal report.
C14_FetchFailureContained ==
    last.op \in {"read_papers", "research_question"} =>
        \A i \in DOMAIN last.events :
            HydrationFailed(i) =>
                /\ last.out[i].content \in
                      {<<"Error downloading PDF">>,
                       <<"Error extracting text from PDF">>}
                /\ \A j \in DOMAIN last.out :
                      (j > i /\ last.out[j].pdf_url # <<>>)
                          => last.out[j].content # <<>>
                /\ last.ret = "report"

\* C15: when read_papers completes without an error outcome, every selected
\* paper has gone through the Content Fetcher: each record of the selected
\* set, and so of the Session Cache, has a content: extracted text, the
\* "unavailable" sentinel for a paper without pdf_url, or an "Error" string.
C15_AllHydrated ==
    (last.op = "read_papers" /\ last.ret = "report") =>
        /\ RECENT_PAPERS = last.out
        /\ \A i \in DOMAIN last.out :
              /\ last.out[i].content # <<>>
              /\ last.out[i].pdf_url = <<>>
                    => last.out[i].content = <<"PDF URL not available">>



(***************************************************************************)
(* Concurrent invocations.  Every tool is a coroutine of one event loop    *)
(* (mcp.run), so a task runs until it awaits something that is not ready.  *)
(* The only such await is client.get of search_arxiv (httpx, line 76); the *)
(* other awaits (evaluate_papers, read_paper, download_pdf,                *)
(* download_papers_to_user) are of coroutines that never suspend, and the  *)
(* PDF requests are requests.get (lines 270 and 649), which keeps the      *)
(* event loop until the request completes.                                 *)
(*   conc.running  the task that is running, or blocked in requests.get    *)
(*   conc.calls    the invocations made so far; the k-th has serial k      *)
(*   conc.lists    for each serial, the list that invocation built, as it  *)
(*                 is now (read_paper changes its records in place)        *)
(*   conc.order    the serials in the order of their writes of the cache   *)
(***************************************************************************)
Tasks == 1..MaxTasks

IdleTask ==
    [pc |-> "idle", op |-> "none", serial |-> 0, found |-> <<>>,
     papers |-> <<>>, i |-> 0, text |-> <<>>, ids |-> {}, all |-> FALSE,
     seen |-> <<>>, sel_seen |-> <<>>, targets |-> <<>>, acc |-> NoBatch]

ConcPipelineOps == {"arxiv_search", "read_papers"}
ConcFound ==
    { Found(TRUE, <<>>), Found(FALSE, <<>>), Found(FALSE, <<P3>>),
      Found(FALSE, <<P1, P2>>) }
ConcQuery == <<"graph">>
ConcCommands ==
    { <<W("download"), W("these"), W("papers")>>,
      <<W("download"), W("paper"), N(1)>> }

\* The awaits at which a task gives the event loop away.
SuspendsAtEveryAwait(point) == point \in {"search", "delegate"}
Suspends(point) == point = "search"

ConcInit ==
    /\ SessionStart
    /\ now_year \in SessionYears
    /\ SelIdle
    /\ fetch = FetchOff /\ feed = FeedOff /\ sc = ScoreOff
    /\ conc = [ConcOff EXCEPT !.on = TRUE, !.tasks = [t \in Tasks |-> IdleTask]]

ConcOthers ==
    <<last, now_year, sel_papers, sel_query, sel_out, sel_pc, fetch, feed, sc>>

CanCall(t) ==
    /\ conc.on
    /\ conc.running = 0
    /\ conc.tasks[t].pc = "idle"
    /\ conc.calls < MaxCalls

\* The invocation that is bound to RECENT_PAPERS: the last that assigned it.
Bound(serial) ==
    conc.order # <<>> /\ conc.order[Len(conc.order)] = serial

\* A pipeline operation is called: it runs up to client.get and waits there.
CallPipeline(t) ==
    /\ CanCall(t)
    /\ \E op \in ConcPipelineOps :
          conc' = [conc EXCEPT
                     !.calls = @ + 1,
                     !.lists = Append(@, <<>>),
                     !.tasks[t] = [IdleTask EXCEPT !.pc = "searching",
                                                   !.op = op,
                                                   !.serial = conc.calls + 1]]
    /\ UNCHANGED <<RECENT_PAPERS, pdf_cache, ConcOthers>>

\* The search request completes: a response, an error, or the timeout of
\* line 76.  The task can go on when the event loop is free.
SearchCompletes(t) ==
    /\ conc.on
    /\ conc.tasks[t].pc = "searching"
    /\ \E found \in ConcFound :
          conc' = [conc EXCEPT !.tasks[t].pc = "ready",
                               !.tasks[t].found = <<found>>]
    /\ UNCHANGED <<RECENT_PAPERS, pdf_cache, ConcOthers>>

\* The task goes on after the search.  arxiv_search runs to its return;
\* read_papers selects, writes the cache and enters its loop.
Resume(t) ==
    LET task == conc.tasks[t]
        found == task.found[1]
    IN /\ conc.on
       /\ task.pc = "ready"
       /\ conc.running = 0
       /\ IF task.op = "arxiv_search"
          THEN LET r == arxiv_search(RECENT_PAPERS, pdf_cache, found)
               IN /\ RECENT_PAPERS' = r.cache
                  /\ conc' = IF found.raised
                             THEN [conc EXCEPT !.tasks[t] = IdleTask]
                             ELSE [conc EXCEPT
                                     !.tasks[t] = IdleTask,
                                     !.lists[task.serial] = found.papers,
                                     !.order = Append(@, task.serial)]
          ELSE IF found.raised \/ found.papers = <<>>
          THEN /\ conc' = [conc EXCEPT !.tasks[t] = IdleTask]
               /\ UNCHANGED RECENT_PAPERS
          ELSE LET relevant_papers ==
                      evaluate_papers(found.papers, ConcQuery, now_year)
               IN /\ RECENT_PAPERS' = Store(RECENT_PAPERS, relevant_papers)
                  /\ conc' = [conc EXCEPT
                                !.running = t,
                                !.lists[task.serial] = relevant_papers,
                                !.order = Append(@, task.serial),
                                !.tasks[t].pc = "fetching",
                                !.tasks[t].papers = relevant_papers,
                                !.tasks[t].i = 1]
       /\ UNCHANGED <<pdf_cache, ConcOthers>>

\* read_paper will call requests.get for this paper.
NeedsRequest(p, files) ==
    HasPdf(p) /\ files[ShortIdOrUnknown(p)] = "absent"

\* One pass of the loop of lines 467-485 on paper i, a request ending as o.
HydrateWith(t, o) ==
    LET task == conc.tasks[t]
        p == task.papers[task.i]
        r == IF HasPdf(p) THEN read_paper(p, pdf_cache, o)
             ELSE [paper |-> p, files |-> pdf_cache]
        papers == [task.papers EXCEPT ![task.i] = r.paper]
    IN /\ pdf_cache' = r.files
       /\ RECENT_PAPERS' = IF Bound(task.serial) THEN papers ELSE RECENT_PAPERS
       /\ conc' = IF task.i = Len(task.papers)
                  THEN [conc EXCEPT !.running = 0,
                                    !.lists[task.serial] = papers,
                                    !.tasks[t] = IdleTask]
                  ELSE [conc EXCEPT !.lists[task.serial] = papers,
                                    !.tasks[t].papers = papers,
                                    !.tasks[t].i = @ + 1]
       /\ UNCHANGED ConcOthers

\* A pass that makes no request: no pdf_url, or the file is in the cache.
HydrateLocal(t) ==
    /\ conc.on
    /\ conc.tasks[t].pc = "fetching"
    /\ ~NeedsRequest(conc.tasks[t].papers[conc.tasks[t].i], pdf_cache)
    /\ HydrateWith(t, "refused")

\* The request of download_pdf completes and the pass goes on.
FetchCompletes(t) ==
    /\ conc.on
    /\ conc.tasks[t].pc = "fetching"
    /\ NeedsRequest(conc.tasks[t].papers[conc.tasks[t].i], pdf_cache)
    /\ \E o \in FetchOutcomes : HydrateWith(t, o)

\* parse_download_request is called: it resolves the paper numbers to ids
\* (lines 697-725) and comes to "await download_papers_to_user(...)".
CallCommand(t) ==
    /\ CanCall(t)
    /\ \E message \in ConcCommands :
        LET plan == ParsePlan(RECENT_PAPERS, message)
            called == [conc EXCEPT !.calls = @ + 1, !.lists = Append(@, <<>>)]
        IN conc' =
             IF plan.ret # "call" THEN called
             ELSE [called EXCEPT
                     !.running = IF Suspends("delegate") THEN 0 ELSE t,
                     !.tasks[t] = [IdleTask EXCEPT
                                     !.pc = "resolved",
                                     !.op = "parse_download_request",
                                     !.serial = conc.calls + 1,
                                     !.text = message,
                                     !.ids = plan.ids,
                                     !.all = plan.all,
                                     !.seen = RECENT_PAPERS]]
    /\ UNCHANGED <<RECENT_PAPERS, pdf_cache, ConcOthers>>

\* download_papers_to_user up to its loop (lines 617-636).
Select(t) ==
    LET task == conc.tasks[t]
        r == Resolve(RECENT_PAPERS, task.ids, task.all)
    IN /\ conc.on
       /\ task.pc = "resolved"
       /\ conc.running \in {0, t}
       /\ conc' =
            IF (RECENT_PAPERS = <<>> /\ task.ids = {})
                  \/ r.raised \/ r.targets = <<>>
            THEN [conc EXCEPT !.running = 0, !.tasks[t] = IdleTask]
            ELSE [conc EXCEPT !.running = t,
                              !.tasks[t].pc = "downloading",
                              !.tasks[t].sel_seen = RECENT_PAPERS,
                              !.tasks[t].targets = r.targets,
                              !.tasks[t].i = 1]
       /\ UNCHANGED <<RECENT_PAPERS, pdf_cache, ConcOthers>>

\* One pass of the loop of lines 638-659 on target i.
DownloadWith(t, o) ==
    LET task == conc.tasks[t]
        acc == Pass(task.acc, task.targets[task.i], o)
    IN /\ conc' = IF task.i = Len(task.targets)
                  THEN [conc EXCEPT !.running = 0, !.tasks[t] = IdleTask]
                  ELSE [conc EXCEPT !.tasks[t].acc = acc,
                                    !.tasks[t].i = @ + 1]
       /\ UNCHANGED <<RECENT_PAPERS, pdf_cache, ConcOthers>>

DownloadLocal(t) ==
    /\ conc.on
    /\ conc.tasks[t].pc = "downloading"
    /\ ~HasPdf(conc.tasks[t].targets[conc.tasks[t].i])
    /\ DownloadWith(t, "failed")

\* The request of line 649 completes and the pass goes on.
DownloadCompletes(t) ==
    /\ conc.on
    /\ conc.tasks[t].pc = "downloading"
    /\ HasPdf(conc.tasks[t].targets[conc.tasks[t].i])
    /\ \E o \in NetOutcomes : DownloadWith(t, o)

ConcNext ==
    \E t \in Tasks :
        \/ CallPipeline(t)
        \/ SearchCompletes(t)
        \/ Resume(t)
        \/ HydrateLocal(t)
        \/ FetchCompletes(t)
        \/ CallCommand(t)
        \/ Select(t)
        \/ DownloadLocal(t)
        \/ DownloadCompletes(t)

SpecConc == ConcInit /\ [][ConcNext]_vars


AllReturned == \A t \in Tasks : conc.tasks[t].pc = "idle"

Writers == { conc.order[n] : n \in 1..Len(conc.order) }

\* C18: under any interleaving of concurrent invocations the session cache
\* is empty or is the whole list that one single invocation wrote, never a
\* mixture of two lists or a partly replaced list; when every invocation has
\* returned it is the list of the invocation that wrote last.
C18_LastWriterWins ==
    conc.on =>
        /\ \/ RECENT_PAPERS = <<>>
           \/ \E k \in Writers : RECENT_PAPERS = conc.lists[k]
        /\ AllReturned =>
              RECENT_PAPERS = IF conc.order = <<>> THEN <<>>
                              ELSE conc.lists[conc.order[Len(conc.order)]]

\* Two invocations overlapped, the one called later wrote first, each wrote
\* a list of its own, and both have returned.
C18_Witness ==
    /\ conc.on
    /\ AllReturned
    /\ Len(conc.order) = 2
    /\ conc.order[1] > conc.order[2]
    /\ conc.lists[conc.order[1]] # <<>>
    /\ conc.lists[conc.order[2]] # <<>>
    /\ conc.lists[conc.order[1]] # conc.lists[conc.order[2]]
    /\ RECENT_PAPERS = conc.lists[conc.order[2]]

\* The paper numbers that the command of a task names.
Named(task) ==
    { n \in Range(NumbersParse(task.text)) : n \in 1..Len(task.seen) }

\* C19: a download command that names paper N downloads the paper that was
\* at position N of the session cache when the numbers were resolved, also
\* with a concurrent search under way: the numbers are resolved to ids and
\* the ids are matched to papers on the same contents of the cache.
C19_ResolvedAndSelectedOnSameCache ==
    conc.on =>
        \A t \in Tasks :
            conc.tasks[t].pc = "downloading" =>
                /\ conc.tasks[t].sel_seen = conc.tasks[t].seen
                /\ \A n \in Named(conc.tasks[t]) :
                      conc.tasks[t].seen[n] \in Range(conc.tasks[t].targets)

\* A command that names a paper is downloading it while the search of
\* another invocation has completed with a different list and waits for
\* the event loop.
C19_Witness ==
    /\ conc.on
    /\ \E t, u \in Tasks :
          /\ conc.tasks[t].pc = "downloading"
          /\ Named(conc.tasks[t]) # {}
          /\ conc.tasks[u].pc = "ready"
          /\ ~conc.tasks[u].found[1].raised
          /\ conc.tasks[u].found[1].papers # <<>>
          /\ conc.tasks[u].found[1].papers # conc.tasks[t].seen

(***************************************************************************)
(* Termination.  The search request carries timeout=30.0 (line 76), so it  *)
(* completes; a task that can run is run by the event loop.  requests.get  *)
(* (lines 270 and 649) carries no timeout: nothing makes it complete.      *)
(***************************************************************************)
ConcFairness ==
    \A t \in Tasks :
        /\ WF_vars(SearchCompletes(t))
        /\ WF_vars(Resume(t))
        /\ WF_vars(HydrateLocal(t))
        /\ WF_vars(Select(t))
        /\ WF_vars(DownloadLocal(t))

SpecConcLive == ConcInit /\ [][ConcNext]_vars /\ ConcFairness

\* Every request completes: the network's side of the proviso.
NetworkFairness ==
    \A t \in Tasks : WF_vars(FetchCompletes(t)) /\ WF_vars(DownloadCompletes(t))

SpecConcNet == SpecConcLive /\ NetworkFairness

\* The invocation in slot t waits for a network request it issued.
Blocked(t) ==
    LET task == conc.tasks[t]
    IN \/ task.pc = "searching"
       \/ task.pc = "fetching" /\ NeedsRequest(task.papers[task.i], pdf_cache)
       \/ task.pc = "downloading" /\ HasPdf(task.targets[task.i])

Returned(t) == conc.tasks[t].pc = "idle"

\* C20: every invocation eventually returns, provided each network request
\* it issues eventually completes.
C20_ReturnsWhenOwnRequestsComplete ==
    \A t \in Tasks : ([]<>~Blocked(t)) => (~Returned(t) ~> Returned(t))

\* With every request of every invocation completing, every invocation
\* returns.
AllReturnWhenAllRequestsComplete ==
    \A t \in Tasks : ~Returned(t) ~> Returned(t)

=============================================================================
